---- MODULE Spec2Model ----
(***************************************************************************)
(* Warehouse incentives: the scoring and ranking engine of app.py          *)
(* (picker_api_stats, supervisor_api_rankings, supervisor_api_picker_detail *)
(* and supervisor_download) over the users and items tables, which login,  *)
(* admin_upload_pickers, admin_clear_data, admin_clear_all and the three   *)
(* event loaders change: admin_upload of app.py, upload_data of            *)
(* quick_upload.py and process_csv_file of csv_processor.py.               *)
(*                                                                         *)
(* clock is what datetime.now() returns.  Time is counted in ticks.  A     *)
(* second has TicksPerSec ticks (the sub-second part of a datetime), a day *)
(* has SecsPerDay seconds, and day 0 is Monday 2019-12-30, so that         *)
(* weekday(day) = day % 7 with Monday = 0.                                 *)
(***************************************************************************)
EXTENDS Integers, Sequences, FiniteSets, Bags, TLC

VARIABLES USE_POSTGRES, users, items, processed_csvs, session, clock, resp,
          inflight, runs

vars == <<USE_POSTGRES, users, items, processed_csvs, session, clock, resp,
          inflight, runs>>

-----------------------------------------------------------------------------
(* Bounds of the model *)

MaxItems == 2

\* BATCH_SIZE = 500 in admin_upload and 1000 in upload_data, scaled down so
\* that the files of the model fill a batch
BATCH_SIZE == 2

TicksPerSec == 2

SecsPerDay == 2

-----------------------------------------------------------------------------
(* Values *)

\* None / SQL NULL in an integer column
NULL == -1

\* leaderboard truncation, "if idx < 15".  The 15 of the code is scaled down
\* so that ranked lists longer than the leaderboard occur.
TopN == 1

\* datetime(2020, 1, 1) is the Wednesday of the week that starts on day 0
Epoch2020Day == 2

TicksPerDay == SecsPerDay * TicksPerSec

\* datetime(day, sec, microsecond) as an instant
T(day, sec, frac) == (day * SecsPerDay + sec) * TicksPerSec + frac

\* the casings under which a picker id occurs in uploads
PickerIds == {"ca.1", "Ca.1", "p2"}

\* str.lower() / SQL LOWER() on the ids
Lower(id) == IF id = "Ca.1" THEN "ca.1" ELSE id

\* the filter tokens the requests carry
Filters == {"today", "yesterday"}

\* datetime.now() of the requests of Spec: Tuesday of the second week, with
\* a sub-second part
Now == T(8, 1, 1)

-----------------------------------------------------------------------------
(* Time-window resolution *)

\* now.replace(hour=0, minute=0, second=0, microsecond=0)
Midnight(t) == t - (t % TicksPerDay)

\* t.replace(hour=23, minute=59, second=59, microsecond=999999)
EndOfDay(t) == Midnight(t) + TicksPerDay - 1

\* now.weekday(), Monday = 0
Weekday(t) == (t \div TicksPerDay) % 7

\* strftime('%Y-%m-%d %H:%M:%S'): the sub-second part is dropped
FormatSec(t) == t - (t % TicksPerSec)

\* the if/elif chain over time_filter: (start_date, end_date)
DateRange(time_filter, now) ==
  CASE time_filter = "today" ->
         [start_date |-> Midnight(now), end_date |-> now]
    [] time_filter = "yesterday" ->
         [start_date |-> Midnight(now - TicksPerDay),
          end_date |-> EndOfDay(now - TicksPerDay)]
    [] time_filter = "this_week" ->
         [start_date |-> Midnight(now - Weekday(now) * TicksPerDay),
          end_date |-> now]
    [] time_filter = "last_week" ->
         [start_date |-> Midnight(now - (Weekday(now) + 7) * TicksPerDay),
          end_date |-> EndOfDay(now - (Weekday(now) + 7) * TicksPerDay
                                    + 6 * TicksPerDay)]
    [] time_filter = "all_time" ->
         [start_date |-> T(Epoch2020Day, 0, 0), end_date |-> now]
    [] OTHER ->
         [start_date |-> Midnight(now), end_date |-> now]

\* start_str, end_str: the bounds the queries compare updated_at with
Window(time_filter, now) ==
  [start_str |-> FormatSec(DateRange(time_filter, now).start_date),
   end_str |-> FormatSec(DateRange(time_filter, now).end_date)]

\* WHERE updated_at >= ? AND updated_at <= ?
InWindow(e, w) == e.updated_at >= w.start_str /\ e.updated_at <= w.end_str

-----------------------------------------------------------------------------
(* The aggregation queries.  its is the items table, a bag of item rows    *)
(* [picker_id, item_status, external_picklist_id, updated_at]; scope is    *)
(* [all, ids]: every row, or the rows whose LOWER(picker_id) is in ids.    *)

RECURSIVE Copies(_, _)
\* COUNT over the rows of the table that are in the set S of distinct rows
Copies(its, S) ==
  IF S = {} THEN 0
  ELSE LET x == CHOOSE y \in S : TRUE
       IN  CopiesIn(x, its) + Copies(its, S \ {x})

ScopeAll == [all |-> TRUE, ids |-> {}]

Members(ids) == [all |-> FALSE, ids |-> ids]

\* AND LOWER(picker_id) IN (...) / = ANY(...), absent from the no-cohort query
InScope(e, scope) == scope.all \/ Lower(e.picker_id) \in scope.ids

\* the rows the WHERE clause keeps
Selected(its, w, scope) ==
  {e \in BagToSet(its) : InWindow(e, w) /\ InScope(e, scope)}

\* a count that leaves out the ITEM_REPLACED events
ItemsPickedCompletedOnly(its, G) ==
  Copies(its, {e \in G : e.item_status = "COMPLETED"})

\* COUNT(CASE WHEN item_status IN ('COMPLETED', 'ITEM_REPLACED') THEN 1 END)
ItemsPicked(its, G) ==
  Copies(its, {e \in G : e.item_status \in {"COMPLETED", "ITEM_REPLACED"}})

\* COUNT(CASE WHEN item_status = 'ITEM_NOT_FOUND' THEN 1 END)
ItemsLost(its, G) ==
  Copies(its, {e \in G : e.item_status = "ITEM_NOT_FOUND"})

\* COUNT(DISTINCT external_picklist_id)
UniquePicklists(G) == Cardinality({e.external_picklist_id : e \in G})

\* one result row of the ranking queries, for the group G of item rows
GroupRow(its, G, display) ==
  [picker_id |-> display,
   items_picked |-> ItemsPicked(its, G),
   items_lost |-> ItemsLost(its, G),
   unique_picklists |-> UniquePicklists(G),
   score |-> ItemsPicked(its, G)]

\* GROUP BY LOWER(picker_id), picker_id: one group per stored casing
GroupByCasing(its, R) ==
  {GroupRow(its, {e \in R : e.picker_id = k}, k) : k \in {e.picker_id : e \in R}}

\* GROUP BY LOWER(picker_id) with the bare column picker_id in the select
\* list: one group per lower-cased id, shown under the casing of any one
\* row of the group.  The result is one of these sets of rows.
GroupByLower(its, R) ==
  LET keys == {Lower(e.picker_id) : e \in R}
      shown == {d \in [keys -> PickerIds] :
                  \A k \in keys : \E e \in R : Lower(e.picker_id) = k
                                               /\ e.picker_id = d[k]}
  IN  {{GroupRow(its, {e \in R : Lower(e.picker_id) = k}, d[k]) : k \in keys}
         : d \in shown}

\* a result without ORDER BY: the rows in any order
OrderArbitrary(rows) ==
  LET n == Cardinality(rows)
  IN  {s \in [1..n -> rows] : \A i, j \in 1..n : i # j => s[i] # s[j]}

\* ORDER BY score DESC: every order of the rows with non-increasing score
\* (rows of equal score come in any order)
OrderByScoreDesc(rows) ==
  LET n == Cardinality(rows)
  IN  {s \in [1..n -> rows] :
         /\ \A i, j \in 1..n : i # j => s[i] # s[j]
         /\ \A i, j \in 1..n : i < j => s[i].score >= s[j].score}

\* the ranking query of the three handlers: the sequences fetchall() may
\* return.  lowerOnly is the SQLite text of the cohort query.
RankingQuery(its, w, scope, lowerOnly) ==
  LET R == Selected(its, w, scope)
  IN  IF lowerOnly
      THEN UNION {OrderByScoreDesc(rows) : rows \in GroupByLower(its, R)}
      ELSE OrderByScoreDesc(GroupByCasing(its, R))

\* SELECT AVG(score) FROM (... GROUP BY LOWER(picker_id)), and
\* "float(avg) if avg_result and avg_result['avg_score'] else 0",
\* as the fraction num/den
DailyAvg(its, w, scope) ==
  LET R == Selected(its, w, scope)
      keys == {Lower(e.picker_id) : e \in R}
      total == ItemsPicked(its, R)
  IN  IF keys = {} \/ total = 0
      THEN [num |-> 0, den |-> 1]
      ELSE [num |-> total, den |-> Cardinality(keys)]

\* a chain whose last two branches are exchanged
StatusColorSwapped(score, daily_avg) ==
  IF daily_avg.num > 0
  THEN IF score * daily_avg.den * 100 > daily_avg.num * 105 THEN "green"
       ELSE IF score * daily_avg.den * 100 >= daily_avg.num * 95 THEN "red"
       ELSE "yellow"
  ELSE "yellow"

\* the green / yellow / red chain; score > daily_avg * 1.05 and
\* score >= daily_avg * 0.95 over the fraction
StatusColor(score, daily_avg) ==
  IF daily_avg.num > 0
  THEN IF score * daily_avg.den * 100 > daily_avg.num * 105 THEN "green"
       ELSE IF score * daily_avg.den * 100 >= daily_avg.num * 95 THEN "yellow"
       ELSE "red"
  ELSE "yellow"

\* "if cohort:" on None or an integer
Truthy(c) == c # NULL /\ c # 0

-----------------------------------------------------------------------------
(* Responses.  resp is the last response, together with what the handler   *)
(* resolved on the way (win, scope, queried, the whole of all_pickers as   *)
(* rankings).  Every operation that changes a table or the session resets  *)
(* it, so a response is always read next to the tables it was computed on. *)

NoSession == [user_id |-> "", role |-> "", cohort |-> NULL]

\* current_user_entry = None
NoEntry == [rank |-> 0]

NoResp ==
  [op |-> "none", error |-> FALSE, time_filter |-> "none",
   picker_id |-> "", cohort |-> NULL,
   win |-> [start_str |-> 0, end_str |-> 0], scope |-> ScopeAll,
   queried |-> FALSE, rankings |-> <<>>, leaderboard |-> <<>>,
   current_user_entry |-> NoEntry,
   items_picked |-> 0, items_lost |-> 0, unique_picklists |-> 0, score |-> 0,
   rank |-> 0, total_pickers |-> 0, items_to_next_rank |-> 0,
   difference_from_first |-> 0, daily_avg |-> [num |-> 0, den |-> 1],
   status_color |-> "yellow", details |-> EmptyBag, rows_inserted |-> 0]

\* an unhandled exception in a handler: HTTP 500, no payload
ErrorResp(op, time_filter) ==
  [NoResp EXCEPT !.op = op, !.error = TRUE, !.time_filter = time_filter]

\* "for idx, picker in enumerate(all_pickers): if picker['picker_id'].lower()
\* == picker_id.lower(): ... break": the 1-based position of the first match,
\* 0 when there is none
FirstMatch(all_pickers, picker_id) ==
  LET hits == {i \in 1..Len(all_pickers) :
                 Lower(all_pickers[i].picker_id) = Lower(picker_id)}
  IN  IF hits = {} THEN 0 ELSE CHOOSE i \in hits : \A j \in hits : i <= j

\* the entry dict of the leaderboard loop
LeaderboardEntry(idx, p, daily_avg, picker_id) ==
  [rank |-> idx,
   picker_id |-> p.picker_id,
   items_picked |-> p.items_picked,
   items_lost |-> p.items_lost,
   unique_picklists |-> p.unique_picklists,
   score |-> p.items_picked,
   status_color |-> StatusColor(p.items_picked, daily_avg),
   is_current_user |-> Lower(p.picker_id) = Lower(picker_id)]

\* an entry that is surfaced only when it lies beyond the leaderboard
CurrentUserEntryBeyondTop(entries) ==
  LET hits == {i \in 1..Len(entries) : entries[i].is_current_user /\ i > TopN}
  IN  IF hits = {} THEN NoEntry
      ELSE entries[CHOOSE i \in hits : \A j \in hits : i >= j]

\* "if is_current_user: current_user_entry = entry": the last match wins
CurrentUserEntry(entries) ==
  LET hits == {i \in 1..Len(entries) : entries[i].is_current_user}
  IN  IF hits = {} THEN NoEntry
      ELSE entries[CHOOSE i \in hits : \A j \in hits : i >= j]

\* the scope picker_api_stats ranks in: the cohort's members when the
\* session has a cohort and some user row has it, every picker otherwise
PickerScope(cohort, cohort_picker_ids) ==
  IF Truthy(cohort) /\ cohort_picker_ids # {}
  THEN Members(cohort_picker_ids)
  ELSE ScopeAll

\* the rank, items_to_next_rank and difference_from_first of the rank loop
\* and of the "not found" branch after it
RankOf(all_pickers, picker_id, score, items_picked) ==
  LET idx == FirstMatch(all_pickers, picker_id)
  IN  IF idx > 0
      THEN [rank |-> idx,
            items_to_next_rank |->
              IF idx > 1 THEN all_pickers[idx - 1].score - score + 1 ELSE 0,
            difference_from_first |-> all_pickers[1].score - score]
      ELSE [rank |-> 0,
            items_to_next_rank |-> 0,
            difference_from_first |->
              IF items_picked = 0 /\ Len(all_pickers) > 0
              THEN all_pickers[1].score ELSE 0]

\* the JSON of picker_api_stats, given the rows the ranking query returned
StatsResp(picker_id, cohort, time_filter, w, all_pickers, own_its, avg_its) ==
  LET cohort_picker_ids ==
        IF Truthy(cohort)
        THEN {Lower(u.picker_id) : u \in {v \in users : v.cohort = cohort}}
        ELSE {}
      scope == PickerScope(cohort, cohort_picker_ids)
      mine == Selected(own_its, w, Members({Lower(picker_id)}))
      items_picked == ItemsPicked(own_its, mine)
      score == items_picked
      r == RankOf(all_pickers, picker_id, score, items_picked)
      daily_avg == DailyAvg(avg_its, w, scope)
      entries == [i \in 1..Len(all_pickers) |->
                    LeaderboardEntry(i, all_pickers[i], daily_avg, picker_id)]
  IN  [op |-> "picker_api_stats", error |-> FALSE,
       time_filter |-> time_filter,
       picker_id |-> picker_id, cohort |-> cohort,
       win |-> w, scope |-> scope, queried |-> TRUE,
       rankings |-> entries,
       leaderboard |-> SubSeq(entries, 1,
                              IF Len(entries) < TopN THEN Len(entries) ELSE TopN),
       current_user_entry |-> CurrentUserEntry(entries),
       items_picked |-> items_picked,
       items_lost |-> ItemsLost(own_its, mine),
       unique_picklists |-> UniquePicklists(mine),
       score |-> score,
       rank |-> r.rank,
       total_pickers |-> Len(all_pickers),
       items_to_next_rank |-> r.items_to_next_rank,
       difference_from_first |-> r.difference_from_first,
       daily_avg |-> daily_avg,
       status_color |-> StatusColor(score, daily_avg)]

\* the JSON of picker_api_stats when its queries all see the same items table
PickerStatsResp(picker_id, cohort, time_filter, w, all_pickers) ==
  StatsResp(picker_id, cohort, time_filter, w, all_pickers, items, items)

-----------------------------------------------------------------------------
(* Inputs *)

\* the instants of the uploaded events: Tuesday (today) and Monday
\* (yesterday), and one with a sub-second part
EventToday == T(8, 0, 0)

EventYesterday == T(7, 1, 0)

CsvRow(t, id, st, pl) ==
  [updated_at |-> t, picker_ldap |-> id, item_status |-> st,
   external_picklist_id |-> pl]

\* the updated_at cell is [ok, t]: ok is FALSE for an empty cell and for a
\* text in neither format
GoodTime(t) == [ok |-> TRUE, t |-> t]

BadTime == [ok |-> FALSE, t |-> 0]

\* a cell the line does not have: csv.DictReader fills it with None
MissingTime == [ok |-> FALSE, t |-> NULL]

\* the rows of the uploaded event files
CsvRows ==
  {CsvRow(GoodTime(EventToday), "p2", st, "PL1") :
     st \in {"COMPLETED", "ITEM_REPLACED"}}
    \cup {CsvRow(GoodTime(EventToday), "ca.1", st, "PL1") :
            st \in {"COMPLETED", "ITEM_NOT_FOUND"}}
    \cup {CsvRow(GoodTime(EventYesterday), "ca.1", "COMPLETED", "PL1"),
          CsvRow(GoodTime(EventToday + 1), "Ca.1", "COMPLETED", "PL2")}

\* the uploaded event files
CsvFiles == {<<r>> : r \in CsvRows}

\* the rows of the uploaded roster files: (Casper ID, Cohort)
RosterRows ==
  ({"ca.1"} \X {"0", "1", "2", ""}) \cup ({"p2"} \X {"1", "2"})

\* the ids typed into the login form
LoginIds == {"Ca.1"}

\* the cohort query parameter of the supervisor's requests
CohortArgs == {"all", "0", "1", "2"}

\* the DOJ cell parsed by one of the four formats: the day number, NULL
\* for an empty cell or one that no format reads
ParseDate(c) == CASE c = "d1" -> 1 [] c = "d2" -> 2 [] OTHER -> NULL

\* int(cohort) of a cell or query parameter; NULL stands for ValueError
ParseInt(c) ==
  CASE c = "0" -> 0 [] c = "1" -> 1 [] c = "2" -> 2 [] OTHER -> NULL

\* the name every file is uploaded under where the name does not matter
UploadName == "events.csv"

-----------------------------------------------------------------------------
(* State.  users holds the rows [picker_id, role, cohort, name, doj,       *)
(* password, password_changed], password being the text the stored hash    *)
(* verifies; processed_csvs holds the filenames of the table of that name. *)

\* no picker_api_stats request is between two of its queries; a request
\* under way holds its filter, the items table as its own-aggregate query saw
\* it, and the rows its ranking query returned
NoRequest ==
  [pc |-> "idle", time_filter |-> "none", own |-> EmptyBag,
   all_pickers |-> <<>>]

\* the processes that call process_new_csvs: the scheduler's job and a cron
\* or manual run of csv_processor.py
Runs == {"scheduler", "cron"}

\* the process is not inside process_new_csvs
NoRun == [pc |-> "idle", new_files |-> {}]

\* the name column of a row inserted without a name: SQL NULL
NoName == "(null)"

\* INSERT INTO users (picker_id, password, role, name, cohort, doj,
\* password_changed) VALUES (..., 0); doj is NULL or a date
NewPicker(picker_id, password, name, cohort, doj) ==
  [picker_id |-> picker_id, role |-> "picker", cohort |-> cohort,
   name |-> name, doj |-> doj, password |-> password, password_changed |-> 0]

Init ==
  /\ USE_POSTGRES \in BOOLEAN
  /\ users = {}
  /\ items = EmptyBag
  /\ session = NoSession
  /\ clock = Now
  /\ resp = NoResp
  /\ processed_csvs = {}
  /\ inflight = NoRequest
  /\ runs = [r \in Runs |-> NoRun]

\* login: the user row is looked up by LOWER(picker_id); the password typed
\* is the right one
login(picker_id) ==
  /\ \E user \in {u \in users : Lower(u.picker_id) = Lower(picker_id)} :
       session' = [user_id |-> user.picker_id,
                   role |-> user.role,
                   \* sqlite3.Row has no get(): the except branch stores None
                   cohort |-> IF USE_POSTGRES /\ Truthy(user.cohort)
                              THEN user.cohort ELSE NULL]
  /\ resp' = NoResp
  /\ UNCHANGED <<USE_POSTGRES, users, items, clock, processed_csvs,
                inflight, runs>>

logout ==
  /\ session # NoSession
  /\ session' = NoSession
  /\ resp' = NoResp
  /\ UNCHANGED <<USE_POSTGRES, users, items, clock, processed_csvs,
                inflight, runs>>

RECURSIVE ParsedItems(_)
\* the rows of a file that admin_upload keeps, as item rows: a row with an
\* unreadable updated_at or an empty picker_ldap is skipped, and updated_at
\* is stored as strftime('%Y-%m-%d %H:%M:%S')
ParsedItems(file) ==
  IF file = <<>> THEN EmptyBag
  ELSE LET row == Head(file)
       IN  IF ~row.updated_at.ok \/ row.picker_ldap = ""
           THEN ParsedItems(Tail(file))
           ELSE SetToBag({[picker_id |-> row.picker_ldap,
                           item_status |-> row.item_status,
                           external_picklist_id |-> row.external_picklist_id,
                           updated_at |-> FormatSec(row.updated_at.t)]})
                  (+) ParsedItems(Tail(file))

\* the row passes the checks of the row loop
Valid(row) == row.updated_at.ok /\ row.picker_ldap # ""

\* row.get('updated_at', '').strip() raises AttributeError on None;
\* process_csv_file catches it and skips the row
Raises(op, row) == op # "process_csv_file" /\ row.updated_at = MissingTime

\* the rows at which the row loop stops with an exception: a row that
\* raises, or row number crash, at which the environment fails (the reader
\* or the database raises); crash = 0 is a run without such a failure
Stops(op, file, crash) ==
  {n \in 1..Len(file) : Raises(op, file[n]) \/ n = crash}

\* the rows handled before the exception, the whole file without one
RowsRead(op, file, crash) ==
  LET stops == Stops(op, file, crash)
  IN  IF stops = {} THEN file
      ELSE SubSeq(file, 1, (CHOOSE n \in stops : \A m \in stops : n <= m) - 1)

\* the rows the batch loop has inserted and committed when the handler
\* ends: every kept row without an exception, the full batches with one
Committed(op, file, crash) ==
  LET kept == SelectSeq(RowsRead(op, file, crash), Valid)
  IN  IF Stops(op, file, crash) = {} THEN kept
      ELSE SubSeq(kept, 1, (Len(kept) \div BATCH_SIZE) * BATCH_SIZE)

\* the response of an ingestion: success with rows_inserted, or an error
UploadResp(op, failed, rows_inserted) ==
  [NoResp EXCEPT !.op = op, !.error = failed,
                 !.rows_inserted = IF failed THEN 0 ELSE rows_inserted]

\* admin_upload of one event file
admin_upload(filename, file, crash) ==
  LET committed == Committed("admin_upload", file, crash)
      failed == Stops("admin_upload", file, crash) # {}
  IN  /\ BagCardinality(items (+) ParsedItems(committed)) <= MaxItems
      /\ items' = items (+) ParsedItems(committed)
      \* INSERT ... ON CONFLICT (filename) DO UPDATE / INSERT OR REPLACE
      /\ processed_csvs' = IF failed THEN processed_csvs
                           ELSE processed_csvs \cup {filename}
      /\ resp' = UploadResp("admin_upload", failed, Len(committed))
      /\ UNCHANGED <<USE_POSTGRES, users, session, clock, inflight, runs>>

\* upload_data of quick_upload.py, which connects to PostgreSQL: batches as
\* in admin_upload, then an account for every picker id seen that no user
\* row has in this very spelling
upload_data(filename, file, crash) ==
  LET committed == Committed("upload_data", file, crash)
      failed == Stops("upload_data", file, crash) # {}
      pickers_seen == {committed[i].picker_ldap : i \in 1..Len(committed)}
      \* generate_password_hash('picker123'); ON CONFLICT (picker_id)
      added == {NewPicker(id, "picker123", NoName, NULL, NULL) :
                  id \in {x \in pickers_seen :
                            \A u \in users : u.picker_id # x}}
  IN  /\ USE_POSTGRES
      /\ BagCardinality(items (+) ParsedItems(committed)) <= MaxItems
      /\ items' = items (+) ParsedItems(committed)
      /\ users' = IF failed THEN users ELSE users \cup added
      /\ processed_csvs' = IF failed THEN processed_csvs
                           ELSE processed_csvs \cup {filename}
      /\ resp' = UploadResp("upload_data", failed, Len(committed))
      /\ UNCHANGED <<USE_POSTGRES, session, clock, inflight, runs>>

RECURSIVE InsertedItems(_)
\* the rows process_csv_file inserts: updated_at is bound as the datetime
\* itself, with its sub-second part
InsertedItems(file) ==
  IF file = <<>> THEN EmptyBag
  ELSE LET row == Head(file)
       IN  IF ~Valid(row) THEN InsertedItems(Tail(file))
           ELSE SetToBag({[picker_id |-> row.picker_ldap,
                           item_status |-> row.item_status,
                           external_picklist_id |-> row.external_picklist_id,
                           updated_at |-> row.updated_at.t]})
                  (+) InsertedItems(Tail(file))

\* a loader that keeps the rows inserted before the failure
ProcessFileNoRollback(filename, file, crash) ==
  LET failed == Stops("process_csv_file", file, crash) # {}
      inserted == InsertedItems(RowsRead("process_csv_file", file, crash))
  IN  /\ ~USE_POSTGRES
      /\ BagCardinality(items (+) inserted) <= MaxItems
      /\ items' = items (+) inserted
      /\ processed_csvs' = IF failed THEN processed_csvs
                           ELSE processed_csvs \cup {filename}
      /\ resp' = UploadResp("process_csv_file", failed,
                            BagCardinality(inserted))
      /\ UNCHANGED <<USE_POSTGRES, users, session, clock, inflight>>

\* the body of process_csv_file of csv_processor.py, which opens the SQLite
\* file: one transaction for the whole file, rolled back by an exception.
\* The position of the caller's loop is left to the caller.
ProcessFile(filename, file, crash) ==
  LET failed == Stops("process_csv_file", file, crash) # {}
      inserted == IF failed THEN EmptyBag ELSE InsertedItems(file)
  IN  /\ ~USE_POSTGRES
      /\ BagCardinality(items (+) inserted) <= MaxItems
      /\ items' = items (+) inserted
      \* INSERT OR IGNORE INTO processed_csvs, in the same transaction
      /\ processed_csvs' = IF failed THEN processed_csvs
                           ELSE processed_csvs \cup {filename}
      /\ resp' = UploadResp("process_csv_file", failed,
                            BagCardinality(inserted))
      /\ UNCHANGED <<USE_POSTGRES, users, session, clock, inflight>>

\* process_csv_file called on one file by itself
process_csv_file(filename, file, crash) ==
  ProcessFile(filename, file, crash) /\ UNCHANGED runs

\* admin_upload_pickers of a roster file of one row: the row updates every
\* user row with the same LOWER(picker_id), or inserts a picker
admin_upload_pickers(row) ==
  LET picker_id == row[1]
      cohort_num == IF row[2] = "" THEN NULL ELSE ParseInt(row[2])
      \* a file without the Name and DOJ columns: row.get('Name', ...) = ''
      name == IF Len(row) >= 3 THEN row[3] ELSE ""
      doj == IF Len(row) >= 4 THEN ParseDate(row[4]) ELSE NULL
      existing == {u \in users : Lower(u.picker_id) = Lower(picker_id)}
  IN  /\ users' = IF existing # {}
                  THEN (users \ existing)
                         \cup {[u EXCEPT !.name = name, !.cohort = cohort_num,
                                         !.doj = doj, !.password = picker_id] :
                                 u \in existing}
                  ELSE users \cup {NewPicker(picker_id, picker_id, name,
                                             cohort_num, doj)}
      /\ resp' = NoResp
      /\ UNCHANGED <<USE_POSTGRES, items, session, clock, processed_csvs,
                inflight, runs>>

\* admin_clear_data: DELETE FROM items, DELETE FROM processed_csvs
admin_clear_data ==
  /\ items' = EmptyBag
  /\ processed_csvs' = {}
  /\ resp' = NoResp
  /\ UNCHANGED <<USE_POSTGRES, users, session, clock, inflight, runs>>

\* admin_clear_all: DELETE FROM items, DELETE FROM processed_csvs, DELETE
\* FROM users WHERE role != 'admin'
admin_clear_all ==
  /\ items' = EmptyBag
  /\ users' = {u \in users : u.role = "admin"}
  /\ processed_csvs' = {}
  /\ resp' = NoResp
  /\ UNCHANGED <<USE_POSTGRES, session, clock, inflight, runs>>

-----------------------------------------------------------------------------
(* The other writers of the users table *)

\* admin_upload_cohorts of a file that puts one id into the column of
\* "Cohort cohort_num": existing rows get the cohort and the password reset
\* to the id, else a picker without name and DOJ is inserted
admin_upload_cohorts(picker_id, cohort_num) ==
  LET existing == {u \in users : Lower(u.picker_id) = Lower(picker_id)}
  IN  /\ users' = IF existing # {}
                  THEN (users \ existing)
                         \cup {[u EXCEPT !.cohort = cohort_num,
                                         !.password = picker_id] :
                                 u \in existing}
                  ELSE users \cup {NewPicker(picker_id, picker_id, NoName,
                                             cohort_num, NULL)}
      /\ resp' = NoResp
      /\ UNCHANGED <<USE_POSTGRES, items, session, clock, processed_csvs,
                inflight, runs>>

\* change_password_first and change_password_settings of the logged-in
\* user: UPDATE users SET password = ?, password_changed = 1 WHERE
\* LOWER(picker_id) = LOWER(session['user_id'])
change_password_first(new_password) ==
  /\ session # NoSession
  /\ users' = {IF Lower(u.picker_id) = Lower(session.user_id)
               THEN [u EXCEPT !.password = new_password,
                              !.password_changed = 1]
               ELSE u : u \in users}
  /\ resp' = NoResp
  /\ UNCHANGED <<USE_POSTGRES, items, session, clock, processed_csvs,
                inflight, runs>>

\* a row (Casper ID, Cohort, Name, DOJ) of data_to_upload/pickers.csv as the
\* user row the loaders insert for it, the password being the id
PickerOfRow(row) ==
  NewPicker(row[1], row[1], row[3],
            IF row[2] = "" THEN NULL ELSE ParseInt(row[2]), ParseDate(row[4]))

\* the user rows of the rows of a file that have a Casper ID
PickersOfFile(file) ==
  {PickerOfRow(file[i]) : i \in {j \in 1..Len(file) : file[j][1] # ""}}

\* LOWER(picker_id) of the rows of role picker
ExistingLower == {Lower(u.picker_id) : u \in {v \in users : v.role = "picker"}}

\* fast_load: the entries of pickers_with_hashes.json whose lowered id is not
\* in the set read before the loop, the first BATCH_SIZE of them (100 in the
\* code), each inserted under try/except.  has_password tells whether the
\* entries carry the key 'password' the INSERT reads: prepare_pickers.py
\* writes 'password_hash', and then every INSERT is skipped on a KeyError
fast_load(all_pickers, has_password) ==
  LET absent(row) == Lower(row[1]) \notin ExistingLower
      found == SelectSeq(all_pickers, absent)
      to_insert == SubSeq(found, 1, IF Len(found) < BATCH_SIZE
                                    THEN Len(found) ELSE BATCH_SIZE)
  IN  /\ users' = IF has_password THEN users \cup PickersOfFile(to_insert)
                  ELSE users
      /\ resp' = NoResp
      /\ UNCHANGED <<USE_POSTGRES, items, session, clock, processed_csvs,
                inflight, runs>>

RECURSIVE BatchOf(_, _, _)
\* the rows load_batch inserts: a row whose lowered id is in existing is
\* skipped, the loop ends at the first new row after BATCH_SIZE inserts (30
\* in the code), and an inserted id joins existing
BatchOf(file, existing, created) ==
  IF file = <<>> THEN {}
  ELSE LET row == Head(file)
       IN  IF row[1] = "" \/ Lower(row[1]) \in existing
           THEN BatchOf(Tail(file), existing, created)
           ELSE IF created >= BATCH_SIZE THEN {}
           ELSE {PickerOfRow(row)}
                  \cup BatchOf(Tail(file), existing \cup {Lower(row[1])},
                               created + 1)

\* load_batch on the rows of pickers.csv
load_batch(file) ==
  /\ users' = users \cup BatchOf(file, ExistingLower, 0)
  /\ resp' = NoResp
  /\ UNCHANGED <<USE_POSTGRES, items, session, clock, processed_csvs,
                inflight, runs>>

\* force_load_pickers: DELETE FROM users WHERE role = 'picker', then an
\* INSERT for every row of pickers.csv that has an id
force_load_pickers(file) ==
  /\ users' = {u \in users : u.role # "picker"} \cup PickersOfFile(file)
  /\ resp' = NoResp
  /\ UNCHANGED <<USE_POSTGRES, items, session, clock, processed_csvs,
                inflight, runs>>

\* upload_pickers of upload_pickers_on_deploy.py, which runs against
\* PostgreSQL only: the same delete and inserts
upload_pickers(file) ==
  /\ USE_POSTGRES
  /\ users' = {u \in users : u.role # "picker"} \cup PickersOfFile(file)
  /\ resp' = NoResp
  /\ UNCHANGED <<USE_POSTGRES, items, session, clock, processed_csvs,
                inflight, runs>>

\* the rows of pickers.csv and of the uploaded rosters: one picker in two
\* spellings, a cohort and a DOJ that do not parse
PickerRows ==
  {<<"ca.1", "1", "Ann", "d1">>, <<"Ca.1", "x", "", "bad">>,
   <<"p2", "2", "Bob", "">>}

\* pickers.csv: up to MaxRows rows, no id twice in the same spelling (the
\* second INSERT of one would fail on UNIQUE (picker_id))
PickerFiles ==
  {f \in UNION {[1..n -> PickerRows] : n \in 1..(BATCH_SIZE + 1)} :
     \A i, j \in 1..Len(f) : i # j => f[i][1] # f[j][1]}

\* one event of a picker in the second spelling
PickerEvents ==
  {<<CsvRow(GoodTime(EventToday), id, "COMPLETED", "PL1")>> :
     id \in {"Ca.1", "p2"}}

RosterNext ==
  \/ \E row \in PickerRows : admin_upload_pickers(row)
  \/ \E id \in {"ca.1", "Ca.1"} : admin_upload_cohorts(id, 2)
  \/ \E f \in PickerFiles, k \in BOOLEAN : fast_load(f, k)
  \/ \E f \in PickerFiles : load_batch(f)
  \/ \E f \in PickerFiles : force_load_pickers(f)
  \/ \E f \in PickerFiles : upload_pickers(f)
  \/ \E file \in PickerEvents : upload_data(UploadName, file, 0)
  \/ login("ca.1")
  \/ change_password_first("secret")
  \/ admin_clear_data
  \/ admin_clear_all

RosterSpec == Init /\ [][RosterNext]_vars

-----------------------------------------------------------------------------
(* The scheduled processor.  A run of process_new_csvs reads the names in   *)
(* processed_csvs, lists the folder, and then handles the files that were   *)
(* not in that set one after the other; runs[r] is the position of process *)
(* r in it.  SQLite lets one connection write at a time, so the             *)
(* transaction of process_csv_file is one step; a writer that waits too     *)
(* long for the lock fails like any other failing file.                     *)

\* csv_uploads: one file with a valid row and a row without a readable
\* timestamp, one with a valid row, two without any valid row.  No row is in
\* two files (the csv_file column tells the rows of the files apart).
Folder ==
  [n \in {"a.csv", "b.csv", "c.csv", "d.csv"} |->
     CASE n = "a.csv" ->
            <<CsvRow(GoodTime(EventToday), "ca.1", "COMPLETED", "PL1"),
              CsvRow(BadTime, "ca.1", "COMPLETED", "PL1")>>
       [] n = "b.csv" ->
            <<CsvRow(GoodTime(EventToday + 1), "p2", "COMPLETED", "PL2")>>
       [] n = "c.csv" ->
            <<CsvRow(GoodTime(EventToday), "", "COMPLETED", "PL1")>>
       [] OTHER ->
            <<CsvRow(MissingTime, "ca.1", "COMPLETED", "PL1")>>]

\* process_new_csvs up to its loop: new_files are the files of the folder
\* whose names are not in processed_csvs now; without any it returns
process_new_csvs(r) ==
  LET processed_files == processed_csvs
      new_files == {f \in DOMAIN Folder : f \notin processed_files}
  IN  /\ ~USE_POSTGRES
      /\ runs[r].pc = "idle"
      /\ runs' = [runs EXCEPT ![r] = IF new_files = {} THEN NoRun
                                     ELSE [pc |-> "files",
                                           new_files |-> new_files]]
      /\ UNCHANGED <<USE_POSTGRES, users, items, session, clock, resp,
                     processed_csvs, inflight>>

\* one turn of "for filepath in new_files": process_csv_file on a file of
\* the list (glob gives them in no particular order), which fails at row
\* crash if crash is not 0; after the last file the run returns
process_next_file(r, filename, crash) ==
  /\ runs[r].pc = "files"
  /\ filename \in runs[r].new_files
  /\ ProcessFile(filename, Folder[filename], crash)
  /\ runs' = [runs EXCEPT ![r] =
                IF runs[r].new_files = {filename} THEN NoRun
                ELSE [pc |-> "files",
                      new_files |-> runs[r].new_files \ {filename}]]

\* runs one after the other: a run starts when no run is under way; the
\* admin may clear the event data at any time
SchedNext ==
  \/ \E r \in Runs :
       (\A q \in Runs : runs[q].pc = "idle") /\ process_new_csvs(r)
  \/ \E r \in Runs : \E filename \in DOMAIN Folder :
       \E crash \in 0..Len(Folder[filename]) :
         process_next_file(r, filename, crash)
  \/ admin_clear_data

SchedSpec == Init /\ [][SchedNext]_vars

\* the scheduler's job and a cron or manual run, started at any time
OverlapNext ==
  \/ \E r \in Runs : process_new_csvs(r)
  \/ \E r \in Runs : \E filename \in DOMAIN Folder :
       \E crash \in 0..Len(Folder[filename]) :
         process_next_file(r, filename, crash)

OverlapSpec == Init /\ [][OverlapNext]_vars

-----------------------------------------------------------------------------
(* The ranking handlers *)

\* picker_api_stats, for the picker of the session.  On SQLite the rows are
\* sqlite3.Row objects, which have no get(): the handler raises as soon as
\* it reads a user row.
picker_api_stats(time_filter) ==
  /\ session # NoSession
  /\ session.role # "supervisor"
  /\ LET picker_id == session.user_id
         cohort == session.cohort
         w == Window(time_filter, clock)
         user_info == {u \in users : Lower(u.picker_id) = Lower(picker_id)}
         cohort_rows == IF Truthy(cohort)
                        THEN {u \in users : u.cohort = cohort} ELSE {}
         cohort_picker_ids == {Lower(u.picker_id) : u \in cohort_rows}
         in_cohort == Truthy(cohort) /\ cohort_picker_ids # {}
     IN  IF ~USE_POSTGRES /\ (user_info # {} \/ cohort_rows # {})
         THEN resp' = ErrorResp("picker_api_stats", time_filter)
         ELSE \E all_pickers \in
                   RankingQuery(items, w, PickerScope(cohort, cohort_picker_ids),
                                in_cohort /\ ~USE_POSTGRES) :
                resp' = PickerStatsResp(picker_id, cohort, time_filter, w,
                                        all_pickers)
  /\ UNCHANGED <<USE_POSTGRES, users, items, session, clock, processed_csvs,
                inflight, runs>>

\* picker_api_stats query by query.  Every SELECT is a statement of its own
\* (READ COMMITTED on PostgreSQL, no read transaction on SQLite) and sees
\* what is committed when it runs.  First the user row and the requester's
\* own aggregate:
stats_own_aggregate(time_filter) ==
  /\ inflight = NoRequest
  /\ session # NoSession
  /\ session.role # "supervisor"
  /\ LET picker_id == session.user_id
         cohort == session.cohort
         user_info == {u \in users : Lower(u.picker_id) = Lower(picker_id)}
         cohort_rows == IF Truthy(cohort)
                        THEN {u \in users : u.cohort = cohort} ELSE {}
     IN  IF ~USE_POSTGRES /\ (user_info # {} \/ cohort_rows # {})
         THEN /\ resp' = ErrorResp("picker_api_stats", time_filter)
              /\ inflight' = inflight
         ELSE /\ resp' = NoResp
              /\ inflight' = [NoRequest EXCEPT !.pc = "ranking",
                                               !.time_filter = time_filter,
                                               !.own = items]
  /\ UNCHANGED <<USE_POSTGRES, users, items, session, clock, processed_csvs,
                 runs>>

\* then the members of the cohort and the ranking query
stats_ranking ==
  /\ inflight.pc = "ranking"
  /\ LET cohort == session.cohort
         w == Window(inflight.time_filter, clock)
         cohort_rows == IF Truthy(cohort)
                        THEN {u \in users : u.cohort = cohort} ELSE {}
         cohort_picker_ids == {Lower(u.picker_id) : u \in cohort_rows}
         in_cohort == Truthy(cohort) /\ cohort_picker_ids # {}
     IN  \E all_pickers \in
              RankingQuery(items, w, PickerScope(cohort, cohort_picker_ids),
                           in_cohort /\ ~USE_POSTGRES) :
           inflight' = [inflight EXCEPT !.pc = "mean",
                                        !.all_pickers = all_pickers]
  /\ UNCHANGED <<USE_POSTGRES, users, items, session, clock, resp,
                 processed_csvs, runs>>

\* then the mean, and the response is put together
stats_mean ==
  /\ inflight.pc = "mean"
  /\ resp' = StatsResp(session.user_id, session.cohort, inflight.time_filter,
                       Window(inflight.time_filter, clock),
                       inflight.all_pickers, inflight.own, items)
  /\ inflight' = NoRequest
  /\ UNCHANGED <<USE_POSTGRES, users, items, session, clock, processed_csvs,
                 runs>>

\* the event files uploaded while a request is under way: one row each, of
\* the requester or of another picker
ConcFiles ==
  {<<CsvRow(GoodTime(EventToday), id, "COMPLETED", "PL1")>> :
     id \in {"ca.1", "p2"}}

\* a picker's request next to the admin's uploads and clearing, which
\* commit between any two of its queries.  The users table and the session
\* are written between requests only.
ConcNext ==
  \/ inflight = NoRequest
       /\ \E row \in {<<"ca.1", "1">>, <<"p2", "1">>} :
            admin_upload_pickers(row)
  \/ inflight = NoRequest /\ login("ca.1")
  \/ \E file \in ConcFiles : admin_upload(UploadName, file, 0)
  \/ admin_clear_data
  \/ \E f \in {"today", "all_time"} : stats_own_aggregate(f)
  \/ stats_ranking
  \/ stats_mean

ConcSpec == Init /\ [][ConcNext]_vars

\* "show_all = cohort == 'all'", else int(cohort) with 1 for a ValueError
SupervisorCohort(cohort_arg) ==
  IF cohort_arg = "all" THEN NULL
  ELSE IF ParseInt(cohort_arg) = NULL THEN 1 ELSE ParseInt(cohort_arg)

\* the user rows the supervisor's handlers read: the pickers, or the cohort
SupervisorUsers(cohort_arg) ==
  IF cohort_arg = "all"
  THEN {u \in users : u.role = "picker"}
  ELSE {u \in users : u.cohort = SupervisorCohort(cohort_arg)}

\* one element of rankings in supervisor_api_rankings
RankingEntry(idx, picker, daily_avg) ==
  [rank |-> idx,
   picker_id |-> picker.picker_id,
   items_picked |-> picker.items_picked,
   items_lost |-> picker.items_lost,
   unique_picklists |-> picker.unique_picklists,
   score |-> picker.items_picked,
   status_color |-> StatusColor(picker.items_picked, daily_avg)]

\* the JSON of supervisor_api_rankings, given the rows of the ranking query
RankingsResp(time_filter, cohort_arg, w, ids, pickers) ==
  LET daily_avg == DailyAvg(items, w, Members(ids))
      rankings == [i \in 1..Len(pickers) |->
                     RankingEntry(i, pickers[i], daily_avg)]
  IN  [NoResp EXCEPT !.op = "supervisor_api_rankings",
                     !.time_filter = time_filter,
                     !.cohort = SupervisorCohort(cohort_arg),
                     !.win = w, !.scope = Members(ids), !.queried = TRUE,
                     !.rankings = rankings,
                     !.daily_avg = daily_avg,
                     !.total_pickers = Len(rankings)]

\* the early return of the supervisor's handlers for an empty member list
EmptyResp(op, time_filter, cohort_arg, w) ==
  [NoResp EXCEPT !.op = op, !.time_filter = time_filter,
                 !.cohort = SupervisorCohort(cohort_arg),
                 !.win = w, !.scope = Members({})]

\* supervisor_api_rankings, for a logged-in supervisor
supervisor_api_rankings(time_filter, cohort_arg) ==
  /\ LET w == Window(time_filter, clock)
         rows == SupervisorUsers(cohort_arg)
         cohort_picker_ids == {Lower(u.picker_id) : u \in rows}
     IN  IF ~USE_POSTGRES /\ rows # {}
         THEN resp' = [ErrorResp("supervisor_api_rankings", time_filter)
                         EXCEPT !.cohort = SupervisorCohort(cohort_arg)]
         ELSE IF cohort_picker_ids = {}
         THEN resp' = EmptyResp("supervisor_api_rankings", time_filter,
                                cohort_arg, w)
         ELSE \E pickers \in RankingQuery(items, w, Members(cohort_picker_ids),
                                          ~USE_POSTGRES) :
                resp' = RankingsResp(time_filter, cohort_arg, w,
                                     cohort_picker_ids, pickers)
  /\ UNCHANGED <<USE_POSTGRES, users, items, session, clock, processed_csvs,
                inflight, runs>>

\* a data row numbered from 0
CsvLineZeroBased(idx, row) ==
  [rank |-> idx - 1,
   picker_id |-> row.picker_id,
   unique_picklists |-> row.unique_picklists,
   items_picked |-> row.items_picked,
   items_lost |-> row.items_lost,
   score |-> row.score]

\* one data row of the CSV of supervisor_download
CsvLine(idx, row) ==
  [rank |-> idx,
   picker_id |-> row.picker_id,
   unique_picklists |-> row.unique_picklists,
   items_picked |-> row.items_picked,
   items_lost |-> row.items_lost,
   score |-> row.score]

\* the CSV of supervisor_download below its header row
DownloadResp(time_filter, cohort_arg, w, ids, rows) ==
  [NoResp EXCEPT !.op = "supervisor_download",
                 !.time_filter = time_filter,
                 !.cohort = SupervisorCohort(cohort_arg),
                 !.win = w, !.scope = Members(ids), !.queried = TRUE,
                 !.rankings = [i \in 1..Len(rows) |-> CsvLine(i, rows[i])],
                 !.total_pickers = Len(rows)]

\* supervisor_download, for a logged-in supervisor
supervisor_download(time_filter, cohort_arg) ==
  /\ LET w == Window(time_filter, clock)
         urows == SupervisorUsers(cohort_arg)
         cohort_picker_ids == {Lower(u.picker_id) : u \in urows}
     IN  IF ~USE_POSTGRES /\ urows # {}
         THEN resp' = [ErrorResp("supervisor_download", time_filter)
                         EXCEPT !.cohort = SupervisorCohort(cohort_arg)]
         ELSE IF cohort_picker_ids = {}
         THEN resp' = EmptyResp("supervisor_download", time_filter,
                                cohort_arg, w)
         ELSE \E rows \in RankingQuery(items, w, Members(cohort_picker_ids),
                                       ~USE_POSTGRES) :
                resp' = DownloadResp(time_filter, cohort_arg, w,
                                     cohort_picker_ids, rows)
  /\ UNCHANGED <<USE_POSTGRES, users, items, session, clock, processed_csvs,
                inflight, runs>>

-----------------------------------------------------------------------------

\* supervisor_api_picker_detail, for a logged-in supervisor: the item rows
\* of one picker in the window.  On SQLite user_info.get raises as soon as
\* the picker has a user row
supervisor_api_picker_detail(picker_id, time_filter) ==
  /\ LET w == Window(time_filter, clock)
         user_info == {u \in users : Lower(u.picker_id) = Lower(picker_id)}
         details == {e \in BagToSet(items) :
                       Lower(e.picker_id) = Lower(picker_id) /\ InWindow(e, w)}
     IN  resp' = IF ~USE_POSTGRES /\ user_info # {}
                 THEN [ErrorResp("supervisor_api_picker_detail", time_filter)
                         EXCEPT !.picker_id = picker_id]
                 ELSE [NoResp EXCEPT
                         !.op = "supervisor_api_picker_detail",
                         !.time_filter = time_filter,
                         !.picker_id = picker_id,
                         !.win = w,
                         !.details = [e \in details |-> CopiesIn(e, items)]]
  /\ UNCHANGED <<USE_POSTGRES, users, items, session, clock, processed_csvs,
                inflight, runs>>

Next ==
  \/ \E picker_id \in LoginIds : login(picker_id)
  \/ logout
  \/ \E file \in CsvFiles : admin_upload(UploadName, file, 0)
  \/ \E row \in RosterRows : admin_upload_pickers(row)
  \/ admin_clear_data
  \/ admin_clear_all
  \/ \E f \in Filters : picker_api_stats(f)
  \/ \E f \in Filters, c \in CohortArgs : supervisor_api_rankings(f, c)
  \/ \E f \in Filters, c \in CohortArgs : supervisor_download(f, c)

Spec == Init /\ [][Next]_vars

-----------------------------------------------------------------------------
(* The time windows at every moment of a week.  One event is loaded, at a  *)
(* boundary of one of the windows of the moment of the requests.           *)

\* the values of the filter parameter: the five tokens, and two that the
\* if/elif chain does not know
AllFilters ==
  {"today", "yesterday", "this_week", "last_week", "all_time", "", "stale"}

\* datetime.now() of the requests: the first and the last tick of each day
\* of the second week
Instants ==
  {T(d, 0, 0) : d \in 7..13}
    \cup {T(d, SecsPerDay - 1, TicksPerSec - 1) : d \in 7..13}

\* the updated_at of the event: around 2020-01-01 00:00:00, around the
\* midnights that bound yesterday, today, this week and last week, and
\* around now
EventTimes(now) ==
  LET monday == Midnight(now - Weekday(now) * TicksPerDay)
      edges == {T(Epoch2020Day, 0, 0), Midnight(now),
                Midnight(now) - TicksPerDay, monday,
                monday - 7 * TicksPerDay}
  IN  edges \cup {t - 1 : t \in edges} \cup {t - TicksPerSec : t \in edges}
        \cup {now, now + 1, now + TicksPerSec}

\* the one-row event files of the window runs
WindowFiles(now) ==
  {<<CsvRow(GoodTime(t), "ca.1", "COMPLETED", "PL1")>> : t \in EventTimes(now)}

WInit ==
  /\ USE_POSTGRES \in BOOLEAN
  /\ users = {}
  /\ items = EmptyBag
  /\ session = NoSession
  /\ clock \in Instants
  /\ resp = NoResp
  /\ processed_csvs = {}
  /\ inflight = NoRequest
  /\ runs = [r \in Runs |-> NoRun]

WNext ==
  \/ admin_upload_pickers(<<"ca.1", "1">>)
  \/ login("ca.1")
  \/ admin_clear_all
  \/ items = EmptyBag /\ \E file \in WindowFiles(clock) :
       admin_upload(UploadName, file, 0)
  \/ items = EmptyBag
       /\ \E file \in WindowFiles(clock) :
            process_csv_file(UploadName, file, 0)
  \/ \E f \in AllFilters : picker_api_stats(f)
  \/ \E f \in AllFilters : supervisor_api_rankings(f, "all")
  \/ \E f \in AllFilters : supervisor_api_picker_detail("ca.1", f)
  \/ \E f \in AllFilters : supervisor_download(f, "all")

WindowSpec == WInit /\ [][WNext]_vars

-----------------------------------------------------------------------------
(* Properties.  They read the response next to the tables it was computed  *)
(* on, and count the events themselves rather than through the queries.    *)

RECURSIVE SumOver(_, _)
\* the sum of f[i] over the indices i in S
SumOver(f, S) ==
  IF S = {} THEN 0
  ELSE LET i == CHOOSE j \in S : TRUE
       IN  f[i] + SumOver(f, S \ {i})

RankedOps == {"picker_api_stats", "supervisor_api_rankings", "supervisor_download"}

\* the last request returned a ranked list (possibly empty)
Ranked(ops) == resp.op \in ops /\ ~resp.error

\* the lower-cased ids of the ranked list
RankedIds == {Lower(resp.rankings[i].picker_id) : i \in 1..Len(resp.rankings)}

\* the positions of the ranked list that belong to the lower-cased id p
EntriesOf(p) ==
  {i \in 1..Len(resp.rankings) : Lower(resp.rankings[i].picker_id) = p}

\* the events of the window and scope of the response
ScopeEvents ==
  {e \in BagToSet(items) :
     /\ resp.win.start_str <= e.updated_at
     /\ e.updated_at <= resp.win.end_str
     /\ (resp.scope.all \/ Lower(e.picker_id) \in resp.scope.ids)}

\* the events of the window of the response, whatever the scope
WindowEvents ==
  {e \in BagToSet(items) :
     resp.win.start_str <= e.updated_at /\ e.updated_at <= resp.win.end_str}

Picked(S) == {e \in S : e.item_status = "COMPLETED" \/ e.item_status = "ITEM_REPLACED"}

Lost(S) == {e \in S : e.item_status = "ITEM_NOT_FOUND"}

By(S, p) == {e \in S : Lower(e.picker_id) = p}

LowerIds == {Lower(id) : id \in PickerIds}

\* the sum of the scores of the ranked list
ScoreSum ==
  SumOver([i \in 1..Len(resp.rankings) |-> resp.rankings[i].score],
          1..Len(resp.rankings))

\* C1: a picker with no COMPLETED or ITEM_REPLACED event in the window
\* (only ITEM_NOT_FOUND or other events, or none) has no entry in the ranked
\* list of picker_api_stats and supervisor_api_rankings, and picker_api_stats
\* called by that picker returns rank = 0.
C1_UnscoredPickerAbsent ==
  Ranked({"picker_api_stats", "supervisor_api_rankings"}) =>
    \A p \in LowerIds :
      Picked(By(WindowEvents, p)) = {} =>
        /\ p \notin RankedIds
        /\ (resp.op = "picker_api_stats" /\ Lower(resp.picker_id) = p
              => resp.rank = 0)

\* C2: every ranked list has at most one entry per lower-cased picker_id,
\* and that entry's items_picked, items_lost and unique_picklists aggregate
\* the events of all casings of the id.
C2_OneEntryPerPicker ==
  Ranked(RankedOps) =>
    \A i \in 1..Len(resp.rankings) :
      LET p == Lower(resp.rankings[i].picker_id)
          mine == By(ScopeEvents, p)
      IN  /\ EntriesOf(p) = {i}
          /\ resp.rankings[i].items_picked = Copies(items, Picked(mine))
          /\ resp.rankings[i].items_lost = Copies(items, Lost(mine))
          /\ resp.rankings[i].unique_picklists
               = Cardinality({e.external_picklist_id : e \in mine})

\* C3: the mean reported by picker_api_stats and supervisor_api_rankings is
\* the sum of the scores of the ranked entries divided by their number, and
\* 0 when the ranked list is empty.
C3_MeanOverRankedList ==
  Ranked({"picker_api_stats", "supervisor_api_rankings"}) =>
    IF Len(resp.rankings) = 0
    THEN resp.daily_avg.num = 0
    ELSE resp.daily_avg.num * Len(resp.rankings) = ScoreSum * resp.daily_avg.den

\* C4: pickers whose score in the window is 0 count neither in the ranking
\* nor in the mean: the ranked list of picker_api_stats holds exactly the
\* pickers with a COMPLETED or ITEM_REPLACED event in the window and scope,
\* and the mean is the total score divided by the number of those pickers
\* (for [(P1,COMPLETED),(P1,COMPLETED),(P2,ITEM_NOT_FOUND),(P3,COMPLETED)]:
\* the list [P1, P3] and the mean 1.5).
C4_MeanOverScoringPickers ==
  Ranked({"picker_api_stats"}) =>
    LET scoring == {p \in LowerIds : Picked(By(ScopeEvents, p)) # {}}
    IN  /\ RankedIds = scoring
        /\ resp.daily_avg.num * Cardinality(scoring)
             = Copies(items, Picked(ScopeEvents)) * resp.daily_avg.den
        /\ scoring = {} => resp.daily_avg.num = 0


C6_SortedAndRankedByPosition ==
  Ranked(RankedOps) =>
    /\ \A i \in 1..Len(resp.rankings) : resp.rankings[i].rank = i
    /\ \A i, j \in 1..Len(resp.rankings) :
         i < j => resp.rankings[i].score >= resp.rankings[j].score

\* a ranked list of two entries with different scores
C6_Witness ==
  /\ Ranked(RankedOps)
  /\ Len(resp.rankings) >= 2
  /\ resp.rankings[1].score > resp.rankings[Len(resp.rankings)].score

\* the status of score s against the mean m = num/den, as the claim puts it
IsGreen(s, m) == m.num > 0 /\ 100 * s * m.den > 105 * m.num

IsRed(s, m) == m.num > 0 /\ 100 * s * m.den < 95 * m.num

\* C7: status is green iff the mean is positive and score > 1.05 * mean, red
\* iff the mean is positive and score < 0.95 * mean, and yellow otherwise,
\* for every entry and for the requesting picker; with mean 0 all are yellow.
C7_StatusClassification ==
  Ranked({"picker_api_stats", "supervisor_api_rankings"}) =>
    /\ \A i \in 1..Len(resp.rankings) :
         LET e == resp.rankings[i]
         IN  /\ e.status_color = "green" <=> IsGreen(e.score, resp.daily_avg)
             /\ e.status_color = "red" <=> IsRed(e.score, resp.daily_avg)
             /\ e.status_color = "yellow" <=>
                  ~IsGreen(e.score, resp.daily_avg) /\ ~IsRed(e.score, resp.daily_avg)
    /\ resp.op = "picker_api_stats" =>
         /\ resp.status_color = "green" <=> IsGreen(resp.score, resp.daily_avg)
         /\ resp.status_color = "red" <=> IsRed(resp.score, resp.daily_avg)
         /\ resp.status_color = "yellow" <=>
              ~IsGreen(resp.score, resp.daily_avg) /\ ~IsRed(resp.score, resp.daily_avg)

\* a ranked list with a green and a red entry
C7_Witness ==
  /\ Ranked({"picker_api_stats", "supervisor_api_rankings"})
  /\ \E i, j \in 1..Len(resp.rankings) :
       /\ resp.rankings[i].status_color = "green"
       /\ resp.rankings[j].status_color = "red"

\* C8: when the requesting picker has an entry in the ranked list,
\* picker_api_stats returns that entry's rank r, difference_from_first =
\* score of the first entry - score of the own entry, and items_to_next_rank
\* = score of the entry at r-1 - score of the own entry + 1 (0 at rank 1);
\* neither is negative, and difference_from_first is 0 at rank 1.
C8_RankAndDistances ==
  Ranked({"picker_api_stats"}) /\ EntriesOf(Lower(resp.picker_id)) # {} =>
    /\ resp.rank \in EntriesOf(Lower(resp.picker_id))
    /\ LET r == resp.rank
           own == resp.rankings[r].score
       IN  /\ resp.difference_from_first = resp.rankings[1].score - own
           /\ resp.items_to_next_rank
                = IF r > 1 THEN resp.rankings[r - 1].score - own + 1 ELSE 0
           /\ r = 1 => resp.difference_from_first = 0
    /\ resp.difference_from_first >= 0
    /\ resp.items_to_next_rank >= 0

\* C9: when the requesting picker has no entry in the ranked list, whatever
\* the reason, picker_api_stats returns rank = 0, items_to_next_rank = 0 and
\* difference_from_first = the score of the first entry (0 for an empty list).
C9_UnrankedPicker ==
  Ranked({"picker_api_stats"}) /\ EntriesOf(Lower(resp.picker_id)) = {} =>
    /\ resp.rank = 0
    /\ resp.items_to_next_rank = 0
    /\ resp.difference_from_first
         = IF Len(resp.rankings) > 0 THEN resp.rankings[1].score ELSE 0

\* C10: a ranking for a cohort that no user row has is the empty list with
\* mean 0 and total 0, computed without an aggregation query, in
\* supervisor_api_rankings and in picker_api_stats of a picker whose cohort
\* is set.
C10_EmptyCohortEmptyRanking ==
  Ranked({"picker_api_stats", "supervisor_api_rankings"})
    /\ resp.cohort # NULL
    /\ {u \in users : u.cohort = resp.cohort} = {}
    => /\ resp.rankings = <<>>
       /\ resp.daily_avg.num = 0
       /\ resp.total_pickers = 0
       /\ ~resp.queried

\* the user row of the picker of the response, when the session still
\* holds what login reads from that row
FreshRows ==
  {u \in users :
     /\ Lower(u.picker_id) = Lower(resp.picker_id)
     /\ u.cohort # NULL
     /\ session.cohort = (IF u.cohort = 0 THEN NULL ELSE u.cohort)}

\* the lists supervisor_api_rankings may return for cohort c in the current
\* state, in the window of the response
SupervisorLists(c) ==
  LET ids == {Lower(v.picker_id) : v \in {x \in users : x.cohort = c}}
      daily_avg == DailyAvg(items, resp.win, Members(ids))
      lists == IF ids = {} THEN {<<>>}
               ELSE RankingQuery(items, resp.win, Members(ids), ~USE_POSTGRES)
  IN  {[i \in 1..Len(pickers) |-> RankingEntry(i, pickers[i], daily_avg)] :
         pickers \in lists}

\* the entries of a ranked list without rank and status
Rows(list) ==
  {[picker_id |-> list[i].picker_id, items_picked |-> list[i].items_picked,
    items_lost |-> list[i].items_lost,
    unique_picklists |-> list[i].unique_picklists, score |-> list[i].score] :
     i \in 1..Len(list)}

\* the score occurs once in the list
Untied(list, i) == \A j \in 1..Len(list) : j # i => list[j].score # list[i].score

\* C11: for a picker whose cohort is c (0 included), picker_api_stats and
\* supervisor_api_rankings with cohort = c, on the same tables, instant and
\* filter, resolve the same window and give ranked lists with the same
\* entries, the same mean and the same total, and every picker whose score
\* is not tied has the same rank in both.
C11_PickerAndSupervisorAgree ==
  Ranked({"picker_api_stats"}) =>
    \A u \in FreshRows :
      LET ids == {Lower(v.picker_id) : v \in {x \in users : x.cohort = u.cohort}}
      IN  /\ resp.win = Window(resp.time_filter, clock)
          /\ resp.daily_avg = DailyAvg(items, resp.win, Members(ids))
          /\ \A list \in SupervisorLists(u.cohort) :
               /\ Rows(list) = Rows(resp.rankings)
               /\ Len(list) = resp.total_pickers
               /\ \A i \in 1..Len(list) :
                    Untied(list, i) =>
                      \E j \in 1..Len(resp.rankings) :
                        /\ resp.rankings[j].picker_id = list[i].picker_id
                        /\ resp.rankings[j].rank = list[i].rank

SelectedRows ==
  IF resp.cohort = NULL THEN {u \in users : u.role = "picker"}
  ELSE {u \in users : u.cohort = resp.cohort}

\* the lists supervisor_api_rankings may return for the selector and the
\* window of the response
SelectedLists ==
  LET ids == {Lower(v.picker_id) : v \in SelectedRows}
      daily_avg == DailyAvg(items, resp.win, Members(ids))
      lists == IF ids = {} THEN {<<>>}
               ELSE RankingQuery(items, resp.win, Members(ids), ~USE_POSTGRES)
  IN  {[i \in 1..Len(pickers) |-> RankingEntry(i, pickers[i], daily_avg)] :
         pickers \in lists}

\* C13 as stated: the CSV of supervisor_download has as many data rows as
\* supervisor_api_rankings has entries for the same tables, window and cohort
\* selector, and row i carries the rank, picker_id and score of entry i; for
\* an empty member set the CSV has no data row and the request does not fail.
C13_CsvRowsMatchEntries ==
  resp.op = "supervisor_download" =>
    /\ SelectedRows = {} => ~resp.error /\ resp.rankings = <<>>
    /\ ~resp.error =>
         \A list \in SelectedLists :
           /\ Len(resp.rankings) = Len(list)
           /\ \A i \in 1..Len(list) :
                /\ resp.rankings[i].rank = list[i].rank
                /\ resp.rankings[i].picker_id = list[i].picker_id
                /\ resp.rankings[i].score = list[i].score

\* C13 amended: as C13, but row i carries the picker_id of entry i only when
\* the score of entry i is not tied; rows of equal score may come in another
\* order, and the rows (picker_id, score) are the same in both.
C13_CsvRowsMatchUpToTies ==
  resp.op = "supervisor_download" =>
    /\ SelectedRows = {} => ~resp.error /\ resp.rankings = <<>>
    /\ ~resp.error =>
         \A list \in SelectedLists :
           /\ Len(resp.rankings) = Len(list)
           /\ \A i \in 1..Len(list) :
                /\ resp.rankings[i].rank = list[i].rank
                /\ resp.rankings[i].score = list[i].score
                /\ Untied(list, i) =>
                     resp.rankings[i].picker_id = list[i].picker_id
           /\ {<<list[i].picker_id, list[i].score>> : i \in 1..Len(list)}
                = {<<resp.rankings[i].picker_id, resp.rankings[i].score>> :
                     i \in 1..Len(resp.rankings)}

\* a CSV of two data rows with different scores
C13_Witness ==
  /\ resp.op = "supervisor_download"
  /\ ~resp.error
  /\ Len(resp.rankings) >= 2
  /\ resp.rankings[1].score > resp.rankings[2].score

-----------------------------------------------------------------------------
(* The three event loaders on files of several rows, some of them rows     *)
(* that a loader skips or that make it fail.                               *)

\* the rows of a file: long enough for a full batch and one row more
MaxRows == BATCH_SIZE + 1

\* the rows of the files: two valid ones, of one picker in two spellings and
\* the second with a sub-second part, and one of each kind that is not valid
IngestRows ==
  {CsvRow(GoodTime(EventToday), "ca.1", "COMPLETED", "PL1"),
   CsvRow(GoodTime(EventToday + 1), "Ca.1", "COMPLETED", "PL2"),
   CsvRow(BadTime, "ca.1", "COMPLETED", "PL1"),
   CsvRow(MissingTime, "ca.1", "COMPLETED", "PL1"),
   CsvRow(GoodTime(EventToday), "", "COMPLETED", "PL1")}

IngestFiles == UNION {[1..n -> IngestRows] : n \in 1..MaxRows}

IngestNext ==
  \/ \E file \in IngestFiles : \E crash \in 0..Len(file) :
       admin_upload(UploadName, file, crash)
  \/ \E file \in IngestFiles : \E crash \in 0..Len(file) :
       upload_data(UploadName, file, crash)
  \/ \E file \in IngestFiles : \E crash \in 0..Len(file) :
       process_csv_file(UploadName, file, crash)
  \/ admin_upload_pickers(<<"ca.1", "1">>)
  \/ admin_clear_data

IngestSpec == Init /\ [][IngestNext]_vars

-----------------------------------------------------------------------------
(* The time windows (WindowSpec) *)

\* the handlers that resolve a filter token to a window
WindowOps ==
  {"picker_api_stats", "supervisor_api_rankings",
   "supervisor_api_picker_detail", "supervisor_download"}

KnownFilters == {"today", "yesterday", "this_week", "last_week", "all_time"}

\* the calendar day of an instant, and the first instant of a calendar day
DayOf(t) == t \div TicksPerDay

StartOfDay(d) == d * TicksPerDay

\* the second an instant lies in, as the queries see now
SecondOf(t) == (t \div TicksPerSec) * TicksPerSec

\* C14: with a filter token that is none of the five known ones, the empty
\* string included, each of the four handlers answers with a normal result,
\* not an error, and over today's window, from the midnight of now to now
C14_UnknownFilterIsToday ==
  (resp.op \in WindowOps /\ resp.time_filter \notin KnownFilters)
    => /\ ~resp.error
       /\ resp.win = [start_str |-> StartOfDay(DayOf(clock)),
                      end_str |-> SecondOf(clock)]

\* C15: "yesterday" runs from the previous midnight to the last instant of
\* the previous day: an event of the picker is among the details of a
\* "yesterday" request exactly when it is dated on the previous calendar
\* day, whatever its sub-second part
C15_YesterdayIsPreviousDay ==
  (resp.op = "supervisor_api_picker_detail" /\ resp.time_filter = "yesterday"
     /\ ~resp.error)
    => \A e \in BagToSet(items) :
         Lower(e.picker_id) = Lower(resp.picker_id)
           => (BagIn(e, resp.details)
                 <=> DayOf(e.updated_at) = DayOf(clock) - 1)

\* the midnight of the Monday on or before an instant
MondayOf(t) == StartOfDay(DayOf(t) - (DayOf(t) % 7))

\* the events of the picker of a detail response
EventsOfPicker ==
  {e \in BagToSet(items) : Lower(e.picker_id) = Lower(resp.picker_id)}

\* a detail response under the filter f
DetailUnder(f) ==
  resp.op = "supervisor_api_picker_detail" /\ resp.time_filter = f
    /\ ~resp.error

\* C16: at every instant now, this_week starts at the midnight of the Monday
\* on or before now, less than 7 days back, and ends at now; last_week
\* starts exactly 7 days before that Monday and ends with the Sunday before
\* it; so the two are disjoint and today lies within this_week
C16_WeekWindows ==
  /\ DetailUnder("this_week")
       => /\ resp.win.start_str = MondayOf(clock)
          /\ 0 <= clock - resp.win.start_str
          /\ clock - resp.win.start_str < 7 * TicksPerDay
          /\ \A e \in EventsOfPicker :
               BagIn(e, resp.details)
                 <=> (MondayOf(clock) <= e.updated_at /\ e.updated_at <= clock)
  /\ DetailUnder("last_week")
       => /\ resp.win.start_str = MondayOf(clock) - 7 * TicksPerDay
          /\ \A e \in EventsOfPicker :
               BagIn(e, resp.details)
                 <=> /\ MondayOf(clock) - 7 * TicksPerDay <= e.updated_at
                     /\ e.updated_at < MondayOf(clock)
  /\ DetailUnder("today")
       => \A e \in EventsOfPicker :
            BagIn(e, resp.details)
              => (MondayOf(clock) <= e.updated_at /\ e.updated_at <= clock)

\* C17: under all_time an event counts exactly when it is dated from
\* 2020-01-01 00:00:00 on and not later than now: one of 2019 is left out,
\* one at 2020-01-01 00:00:00 is counted, one after now is left out
C17_AllTimeWindow ==
  DetailUnder("all_time")
    => \A e \in EventsOfPicker :
         BagIn(e, resp.details)
           <=> (StartOfDay(Epoch2020Day) <= e.updated_at
                  /\ e.updated_at <= clock)

-----------------------------------------------------------------------------
(* Event ingestion (IngestSpec) *)

LoaderOps == {"admin_upload", "upload_data", "process_csv_file"}

\* the step is the run of loader op on the file, failing at row crash if
\* crash is not 0
LoadStep(op, file, crash) ==
  /\ resp'.op = op
  /\ \/ op = "admin_upload" /\ admin_upload(UploadName, file, crash)
     \/ op = "upload_data" /\ upload_data(UploadName, file, crash)
     \/ op = "process_csv_file" /\ process_csv_file(UploadName, file, crash)

\* a row with a timestamp in an accepted format and a picker id
IsValidRow(row) == row.updated_at.ok /\ row.picker_ldap # ""

\* the number of valid rows among the first n rows of a file
ValidAmong(file, n) == Cardinality({i \in 1..n : IsValidRow(file[i])})

\* every row of the file has all its fields
Complete(file) == \A i \in 1..Len(file) : file[i].updated_at # MissingTime

\* the items table has grown by n rows in the step
Grown(n) == BagCardinality(items') = BagCardinality(items) + n

\* C18: on each of the three ingestion paths, when the processing of a file
\* fails at some row after rows were accepted, the rows of the batches
\* completed before the failure remain in items (with process_csv_file, which
\* inserts row by row, at least the first accepted row remains)
C18_CompletedBatchesRemain ==
  [][\A op \in LoaderOps : \A file \in IngestFiles : \A crash \in 1..Len(file) :
       (Complete(file) /\ LoadStep(op, file, crash))
         => LET k == ValidAmong(file, crash - 1)
            IN  IF op = "process_csv_file"
                THEN k >= 1 => ~Grown(0)
                ELSE Grown((k \div BATCH_SIZE) * BATCH_SIZE)]_vars

\* C19: on each of the three ingestion paths a row without a readable
\* updated_at (missing, empty, in neither format) or with an empty picker id
\* is skipped alone: the run inserts every valid row of the file, as many
\* rows as the file has valid ones, and reports success
C19_InvalidRowSkippedAlone ==
  [][\A op \in LoaderOps : \A file \in IngestFiles :
       LoadStep(op, file, 0)
         => /\ ~resp'.error
            /\ Grown(ValidAmong(file, Len(file)))
            /\ resp'.rows_inserted = ValidAmong(file, Len(file))]_vars

\* C20: when an ingestion on one of the three paths has completed, every
\* picker_id of an inserted event has a user row of role picker whose
\* picker_id matches it without regard to case
C20_PickersProvisioned ==
  [][\A op \in LoaderOps : \A file \in IngestFiles :
       (LoadStep(op, file, 0) /\ ~resp'.error)
         => \A i \in 1..Len(file) :
              IsValidRow(file[i])
                => \E u \in users' :
                     /\ u.role = "picker"
                     /\ Lower(u.picker_id) = Lower(file[i].picker_ldap)]_vars

-----------------------------------------------------------------------------
(* The users table (RosterSpec) *)

\* C21: after any sequence of roster uploads, cohort uploads, batch loads
\* and event ingestions that provision accounts, no two user rows have
\* picker_ids that are equal without regard to case
C21_NoCaseDuplicates ==
  \A u, v \in users :
    Lower(u.picker_id) = Lower(v.picker_id) => u.picker_id = v.picker_id

\* C22: a picker user row, once created, exists until admin_clear_all runs:
\* a step of any other operation leaves every picker row in the table under
\* its picker_id; and admin_clear_data empties items and processed_csvs and
\* leaves users unchanged
C22_PickerRowsPersist ==
  [][/\ (\E u \in users :
           /\ u.role = "picker"
           /\ \A v \in users' : v.picker_id # u.picker_id)
          => admin_clear_all
     /\ admin_clear_data
          => (items' = EmptyBag /\ processed_csvs' = {} /\ users' = users)]_vars

\* C24: a roster upload of a row for an existing picker overwrites exactly
\* name, cohort and DOJ of the stored row (a cohort or date that does not
\* parse becomes null, the row is not rejected) and leaves picker_id, role,
\* password and password_changed as they were; a cohort upload for an
\* existing picker changes only the cohort
C24_RosterUploadFrame ==
  [][/\ \A row \in PickerRows :
          admin_upload_pickers(row)
            => \A u \in users :
                 Lower(u.picker_id) = Lower(row[1])
                   => [u EXCEPT !.name = row[3],
                                !.cohort = ParseInt(row[2]),
                                !.doj = ParseDate(row[4])] \in users'
     /\ \A id \in PickerIds : \A c \in {1, 2} :
          admin_upload_cohorts(id, c)
            => \A u \in users :
                 Lower(u.picker_id) = Lower(id)
                   => [u EXCEPT !.cohort = c] \in users']_vars

-----------------------------------------------------------------------------
(* Scopes, consistency of one response, repeated uploads (Spec) *)

\* C23: the supervisor ranking for cohort 'all' has an entry for every
\* picker_id with at least one event in the window, whether or not a user
\* row of role picker exists for it (the list a picker without cohort gets)
C23_SupervisorAllRanksEveryPicker ==
  (Ranked({"supervisor_api_rankings"}) /\ resp.cohort = NULL)
    => \A e \in WindowEvents : Lower(e.picker_id) \in RankedIds

OwnEntries == {i \in 1..Len(resp.rankings) : resp.rankings[i].is_current_user}

\* C26: a picker_api_stats response is consistent in itself: at most one
\* entry is marked is_current_user, and a current_user_entry that is not
\* null has the rank, score, status_color, items_picked, items_lost and
\* unique_picklists of the top level of the response
C26_ResponseConsistent ==
  Ranked({"picker_api_stats"})
    => /\ Cardinality(OwnEntries) <= 1
       /\ resp.current_user_entry # NoEntry
            => /\ resp.current_user_entry.rank = resp.rank
               /\ resp.current_user_entry.score = resp.score
               /\ resp.current_user_entry.status_color = resp.status_color
               /\ resp.current_user_entry.items_picked = resp.items_picked
               /\ resp.current_user_entry.items_lost = resp.items_lost
               /\ resp.current_user_entry.unique_picklists
                    = resp.unique_picklists

\* C27: picker_api_stats ranks within the cohort the requester has in the
\* users table at the time of the request, also after an upload changed or
\* cleared it since the login: the scope is the member set of that cohort
\* (every picker when the requester has none), and a requester with events
\* in the window is in the list
C27_ScopeIsCurrentCohort ==
  Ranked({"picker_api_stats"})
    => \A u \in users :
         Lower(u.picker_id) = Lower(resp.picker_id)
           => /\ resp.scope
                   = IF u.cohort = NULL THEN ScopeAll
                     ELSE Members({Lower(v.picker_id) :
                                     v \in {x \in users : x.cohort = u.cohort}})
              /\ By(WindowEvents, Lower(resp.picker_id)) # {}
                   => Lower(resp.picker_id) \in RankedIds

-----------------------------------------------------------------------------
(* Repeated uploads (RepeatSpec) *)

\* the admin uploads the files of the folder by hand, each under its name
\* and any number of times, an upload failing at row crash if crash is not
\* 0; the supervisor looks at the ranking in between
RepeatNext ==
  \/ \E filename \in DOMAIN Folder :
       \E crash \in 0..Len(Folder[filename]) :
         admin_upload(filename, Folder[filename], crash)
  \/ admin_clear_data
  \/ admin_upload_pickers(<<"ca.1", "1">>)
  \/ \E f \in Filters : supervisor_api_rankings(f, "all")

RepeatSpec == Init /\ [][RepeatNext]_vars

\* the item rows admin_upload stores for the valid rows of a file: the
\* timestamp without its sub-second part
UploadedItems(n) ==
  {[picker_id |-> Folder[n][i].picker_ldap,
    item_status |-> Folder[n][i].item_status,
    external_picklist_id |-> Folder[n][i].external_picklist_id,
    updated_at |-> SecondOf(Folder[n][i].updated_at.t)] :
     i \in {j \in 1..Len(Folder[n]) : IsValidRow(Folder[n][j])}}

\* C28: admin_upload is idempotent per file: however often a file was
\* uploaded under its name, again after a complete upload or after a failed
\* one, items holds what one complete upload stores, every valid row of an
\* uploaded file once
C28_UploadIdempotent ==
  \A n \in DOMAIN Folder :
    n \in processed_csvs
      => \A e \in UploadedItems(n) : CopiesIn(e, items) = 1

-----------------------------------------------------------------------------
(* The scheduled processor (SchedSpec, OverlapSpec) *)

\* the item rows of the valid rows of a file of the folder
FileItems(n) ==
  {[picker_id |-> Folder[n][i].picker_ldap,
    item_status |-> Folder[n][i].item_status,
    external_picklist_id |-> Folder[n][i].external_picklist_id,
    updated_at |-> Folder[n][i].updated_at.t] :
     i \in {j \in 1..Len(Folder[n]) : IsValidRow(Folder[n][j])}}

\* every valid row of a recorded file is in items, once, and no row of a
\* file that is not recorded is
MarkedAndLoaded ==
  \A n \in DOMAIN Folder : \A e \in FileItems(n) :
    CopiesIn(e, items) = IF n \in processed_csvs THEN 1 ELSE 0

\* C29: with runs of process_new_csvs one after the other, some of them
\* failing part-way through a file: a filename is in processed_csvs exactly
\* when the valid rows of the file are in items, a failed file has left no
\* row and is in the list of the next run, and a file that is in
\* processed_csvs is not read again
C29_MarkedAndLoadedTogether ==
  [][/\ MarkedAndLoaded
     /\ MarkedAndLoaded'
     /\ \A r \in Runs :
          process_new_csvs(r)
            => \A n \in DOMAIN Folder :
                 n \notin processed_csvs => n \in runs'[r].new_files
     /\ \A r \in Runs : \A n \in DOMAIN Folder : \A crash \in 0..Len(Folder[n]) :
          process_next_file(r, n, crash)
            => /\ n \notin processed_csvs
               /\ crash # 0 => (items' = items /\ n \notin processed_csvs')]_vars

\* a run has just failed on a file while another file is recorded with its
\* row in items
C29_Witness ==
  /\ resp.op = "process_csv_file"
  /\ resp.error
  /\ processed_csvs = {"a.csv"}
  /\ items # EmptyBag
  /\ \E r \in Runs : runs[r].pc = "idle"

\* C30: under every interleaving of two runs of process_new_csvs, the
\* scheduler's job and a cron or manual run, the rows of a file are inserted
\* once and not more: no row of a file of the folder is in items twice
C30_IngestedAtMostOnce ==
  \A n \in DOMAIN Folder : \A e \in FileItems(n) : CopiesIn(e, items) <= 1

====
